---- MODULE Spec2Model ----
(***************************************************************************)
(* Model of nilaway's inference.InferredMap (inferred_map.go): the live    *)
(* mapping and the upstream snapshot of one analysis pass, the mutation    *)
(* API, the export selector, Export, the gob transport and the annotation  *)
(* queries.                                                                *)
(***************************************************************************)
EXTENDS Integers, FiniteSets, Sequences, TLC

\* ------------------------------------------------------------------ bounds
\* Number of StoreDetermined/StoreImplication calls one behaviour makes.
MaxOps == 3
\* Number of Store* calls of a behaviour that also crosses a package
\* boundary (encode, decode, seeding of the upstream snapshot).
MaxUpOps == 2
\* Number of Store* calls of a downstream pass that also makes the
\* introspection calls.
MaxReadOps == 1
\* Number of nested calls of the selector's closures the stack holds.
MaxStackDepth == 3
\* Length of the -include-pkgs and -exclude-pkgs flag values.
MaxFlagLen == 3
\* Length of a package path.
MaxPathLen == 2

\* ------------------------------------------------------------------- sites
\* Annotation keys; the keys of exported (capitalized) declarations.
Keys == {"E", "P"}
ExportedKeys == {"E"}

\* primitiveSite: the key, the deep bit and the Exported bit (a function of
\* the key: the visibility of the declaration).
newPrimitiveSite(key, deep) ==
    [key |-> key, deep |-> deep, Exported |-> key \in ExportedKeys]

Sites == {newPrimitiveSite(k, d) : k \in Keys, d \in BOOLEAN}

\* primitiveFullTrigger: the assertions that justify an edge.
Triggers == {"t1", "t2"}

\* ------------------------------------------------------------------ values
\* sitesWithAssertions: neighbour site -> the set of assertions of the edge.
newSitesWithAssertions == [s \in {} |-> {}]

addSiteWithAssertion(sites, site, assertion) ==
    [s \in DOMAIN sites \cup {site} |->
        IF s = site
        THEN (IF s \in DOMAIN sites THEN sites[s] ELSE {}) \cup {assertion}
        ELSE sites[s]]

DeterminedVal(b) == [tag |-> "Determined", Bool |-> b]

UndeterminedVal(implicates, implicants) ==
    [tag |-> "Undetermined", Implicates |-> implicates, Implicants |-> implicants]

isUndetermined(m, site) == site \in DOMAIN m /\ m[site].tag = "Undetermined"

isDetermined(m, site) == site \in DOMAIN m /\ m[site].tag = "Determined"

\* make(map[primitiveSite]InferredVal)
EmptyMap == [s \in {} |-> DeterminedVal(FALSE)]

\* m[site] = val on a Go map.
MapStore(m, site, val) ==
    [s \in DOMAIN m \cup {site} |-> IF s = site THEN val ELSE m[s]]

\* ------------------------------------------------------------ configuration
\* Strings are sequences of characters.
PathChars == {"a", "b"}
FlagChars == PathChars \cup {","}

Strings(chars, maxLen) == UNION {[1..n -> chars] : n \in 0..maxLen}

\* strings.HasPrefix
HasPrefix(s, prefix) ==
    /\ Len(prefix) <= Len(s)
    /\ SubSeq(s, 1, Len(prefix)) = prefix

\* strings.Split(s, ","): the pieces between the commas, empty ones kept.
RECURSIVE Split(_)
Split(s) ==
    IF \A k \in 1..Len(s) : s[k] # ","
    THEN <<s>>
    ELSE LET k == CHOOSE i \in 1..Len(s) :
                     s[i] = "," /\ \A j \in 1..(i - 1) : s[j] # ","
         IN  <<SubSeq(s, 1, k - 1)>> \o Split(SubSeq(s, k + 1, Len(s)))

\* Lines 140-164 of config.go: the defaults, overridden by non-empty flags.
runConfig(include, exclude) ==
    [includePkgs |-> IF include # <<>> THEN Split(include) ELSE << <<>> >>,
     excludePkgs |-> IF exclude # <<>> THEN Split(exclude) ELSE <<>>]

\* ------------------------------------------------------------------- state
VARIABLES
    mapping,          \* InferredMap.mapping
    upstreamMapping,  \* InferredMap.upstreamMapping
    wire,             \* the bytes GobEncode produced, until they are decoded
    panicked,         \* a call ended in a run-time panic; the pass is aborted
    nops,             \* number of Store* calls made
    last,             \* the last call: its name, arguments and results
    conf              \* the Config that run of the config analyzer built

vars == <<mapping, upstreamMapping, wire, panicked, nops, last, conf>>

NoWire == [present |-> FALSE, bytes |-> {}]

\* The Config of a run without flags.
DefaultConfig == runConfig(<<>>, <<>>)

Init ==
    /\ mapping = EmptyMap
    /\ upstreamMapping = EmptyMap
    /\ wire = NoWire
    /\ panicked = FALSE
    /\ nops = 0
    /\ last = [op |-> "newInferredMap"]
    /\ conf = DefaultConfig

\* ------------------------------------------------------------ mutation API
\* Mutant: an entry that exists is kept.
StoreDeterminedMap_FirstWins(m, site, value) ==
    IF site \in DOMAIN m THEN m ELSE MapStore(m, site, DeterminedVal(value))

\* The map StoreDetermined leaves.
StoreDeterminedMap(m, site, value) == MapStore(m, site, DeterminedVal(value))

StoreDetermined(site, value) ==
    /\ ~panicked
    /\ nops < MaxOps
    /\ mapping' = StoreDeterminedMap(mapping, site, value)
    /\ nops' = nops + 1
    /\ last' = [op |-> "StoreDetermined", site |-> site, value |-> value]
    /\ UNCHANGED <<upstreamMapping, wire, panicked, conf>>

\* Lines 100-107: create the missing endpoints, `from` first.
EnsureUndetermined(m, site) ==
    IF site \in DOMAIN m
    THEN m
    ELSE MapStore(m, site, UndeterminedVal(newSitesWithAssertions, newSitesWithAssertions))

\* Line 109; the caller has checked that m[from] is an *UndeterminedVal.
AddImplicate(m, from, to, assertion) ==
    [m EXCEPT ![from].Implicates = addSiteWithAssertion(@, to, assertion)]

\* Mutant: line 110 names `to` where it should name `from`.
AddImplicant_WrongSite(m, from, to, assertion) ==
    [m EXCEPT ![to].Implicants = addSiteWithAssertion(@, to, assertion)]

\* Line 110; the caller has checked that m[to] is an *UndeterminedVal.
AddImplicant(m, from, to, assertion) ==
    [m EXCEPT ![to].Implicants = addSiteWithAssertion(@, from, assertion)]

\* Mutant: the loop of lines 100-107 creates the entry of `from` only.
StoreImplicationMap_FromOnly(m, from, to, assertion) ==
    LET m1 == EnsureUndetermined(m, from)
    IN  IF ~isUndetermined(m1, from)
        THEN [map |-> m1, panic |-> TRUE]
        ELSE LET m2 == AddImplicate(m1, from, to, assertion)
             IN  IF ~isUndetermined(m2, to)
                 THEN [map |-> m2, panic |-> TRUE]
                 ELSE [map |-> AddImplicant(m2, from, to, assertion), panic |-> FALSE]

\* The map StoreImplication leaves and whether it panicked: the type
\* assertions of lines 109 and 110 have no comma-ok form, so each panics on a
\* *DeterminedVal, after the statements before it have taken effect.
StoreImplicationMap(m, from, to, assertion) ==
    LET m1 == EnsureUndetermined(EnsureUndetermined(m, from), to)
    IN  IF ~isUndetermined(m1, from)
        THEN [map |-> m1, panic |-> TRUE]
        ELSE LET m2 == AddImplicate(m1, from, to, assertion)
             IN  IF ~isUndetermined(m2, to)
                 THEN [map |-> m2, panic |-> TRUE]
                 ELSE [map |-> AddImplicant(m2, from, to, assertion), panic |-> FALSE]

\* Mutant: the upstream snapshot holds the same value objects as the live
\* map, so the edge added at lines 109-110 shows in the snapshot too.
StoreImplication_SharedValues(from, to, assertion) ==
    /\ ~panicked
    /\ nops < MaxOps
    /\ LET r == StoreImplicationMap(mapping, from, to, assertion)
       IN  /\ mapping' = r.map
           /\ panicked' = r.panic
           /\ upstreamMapping' =
                 [s \in DOMAIN upstreamMapping |->
                     IF s \in {from, to} /\ isUndetermined(upstreamMapping, s)
                     THEN r.map[s] ELSE upstreamMapping[s]]
           /\ last' = [op |-> "StoreImplication", from |-> from, to |-> to,
                       assertion |-> assertion,
                       fromDetermined |-> isDetermined(mapping, from),
                       toDetermined |-> isDetermined(mapping, to),
                       again |-> /\ last.op = "StoreImplication"
                                 /\ last.from = from /\ last.to = to
                                 /\ last.assertion = assertion]
    /\ nops' = nops + 1
    /\ UNCHANGED <<wire, conf>>

StoreImplication(from, to, assertion) ==
    /\ ~panicked
    /\ nops < MaxOps
    /\ LET r == StoreImplicationMap(mapping, from, to, assertion)
       IN  /\ mapping' = r.map
           /\ panicked' = r.panic
           /\ last' = [op |-> "StoreImplication", from |-> from, to |-> to,
                       assertion |-> assertion,
                       fromDetermined |-> isDetermined(mapping, from),
                       toDetermined |-> isDetermined(mapping, to),
                       again |-> /\ last.op = "StoreImplication"
                                 /\ last.from = from /\ last.to = to
                                 /\ last.assertion = assertion]
    /\ nops' = nops + 1
    /\ UNCHANGED <<upstreamMapping, wire, conf>>

\* --------------------------------------------------------- export selector
\* The three marking sets of chooseSitesToExport (lines 195-197), and the
\* bookkeeping of the run: how often each walk went into the neighbours of a
\* site, how many calls of the two closures are on the stack, and whether
\* the stack ran out.
NewMarks ==
    [toExport |-> {}, reachableFromExported |-> {}, reachesExported |-> {},
     forward |-> [s \in Sites |-> 0], backward |-> [s \in Sites |-> 0],
     depth |-> 0, overflow |-> FALSE]

\* A call that finds the stack full ends the run.
stackOverflow(st) == [st EXCEPT !.overflow = TRUE]

\* The frame of a call that goes into the neighbours of site.
enterForward(st, site) ==
    [st EXCEPT !.forward[site] = @ + 1, !.depth = @ + 1]

enterBackward(st, site) ==
    [st EXCEPT !.backward[site] = @ + 1, !.depth = @ + 1]

\* The call returns.
leave(st) == [st EXCEPT !.depth = @ - 1]

RECURSIVE markReachableFromExported(_, _, _)
RECURSIVE rangeImplicates(_, _, _)
RECURSIVE markReachesExported(_, _, _)
RECURSIVE rangeImplicants(_, _, _)

\* Mutant: a site found to reach an exported site is selected, but the walk
\* stops there instead of going on through its implicates.
markReachableFromExported_NoDescent(m, st, site) ==
    IF /\ isUndetermined(m, site)
       /\ ~site.Exported
       /\ site \notin st.toExport
       /\ site \notin st.reachableFromExported
    THEN IF site \in st.reachesExported
         THEN {[st EXCEPT !.toExport = @ \cup {site}]}
         ELSE rangeImplicates(m, [st EXCEPT !.reachableFromExported = @ \cup {site}],
                              DOMAIN m[site].Implicates)
    ELSE {st}

\* Mutant: every site the forward walk meets is selected, whether or not
\* the backward walk has reached it.
markReachableFromExported_SelectAll(m, st, site) ==
    IF /\ isUndetermined(m, site)
       /\ ~site.Exported
       /\ site \notin st.toExport
       /\ site \notin st.reachableFromExported
    THEN rangeImplicates(m, [st EXCEPT !.toExport = @ \cup {site}],
                         DOMAIN m[site].Implicates)
    ELSE {st}

\* Mutant: the guard of line 201 lacks the test of reachableFromExported.
markReachableFromExported_NoVisitedTest(m, st, site) ==
    IF /\ isUndetermined(m, site)
       /\ ~site.Exported
       /\ site \notin st.toExport
       /\ ~st.overflow
    THEN IF st.depth >= MaxStackDepth
         THEN {stackOverflow(st)}
         ELSE LET st1 == IF site \in st.reachesExported
                         THEN [st EXCEPT !.toExport = @ \cup {site}]
                         ELSE [st EXCEPT !.reachableFromExported = @ \cup {site}]
              IN  {leave(st2) : st2 \in rangeImplicates(m, enterForward(st1, site),
                                                        DOMAIN m[site].Implicates)}
    ELSE {st}

\* Lines 200-212. The result is the set of markings the call can leave: one
\* for each order in which the range statements visit the neighbours.
markReachableFromExported(m, st, site) ==
    IF /\ isUndetermined(m, site)
       /\ ~site.Exported
       /\ site \notin st.toExport
       /\ site \notin st.reachableFromExported
       /\ ~st.overflow
    THEN IF st.depth >= MaxStackDepth
         THEN {stackOverflow(st)}
         ELSE LET st1 == IF site \in st.reachesExported
                         THEN [st EXCEPT !.toExport = @ \cup {site}]
                         ELSE [st EXCEPT !.reachableFromExported = @ \cup {site}]
              IN  {leave(st2) : st2 \in rangeImplicates(m, enterForward(st1, site),
                                                        DOMAIN m[site].Implicates)}
    ELSE {st}

\* for implicate := range val.Implicates { markReachableFromExported(implicate) }
rangeImplicates(m, st, todo) ==
    IF todo = {}
    THEN {st}
    ELSE UNION {UNION {rangeImplicates(m, st2, todo \ {n}) :
                         st2 \in markReachableFromExported(m, st, n)} : n \in todo}

\* Mutant: a site found to be reachable from an exported site is selected,
\* but the walk stops there instead of going on through its implicants.
markReachesExported_NoDescent(m, st, site) ==
    IF /\ isUndetermined(m, site)
       /\ ~site.Exported
       /\ site \notin st.toExport
       /\ site \notin st.reachesExported
    THEN IF site \in st.reachableFromExported
         THEN {[st EXCEPT !.toExport = @ \cup {site}]}
         ELSE rangeImplicants(m, [st EXCEPT !.reachesExported = @ \cup {site}],
                              DOMAIN m[site].Implicants)
    ELSE {st}

\* Mutant: every site the backward walk meets is selected, whether or not
\* the forward walk has reached it.
markReachesExported_SelectAll(m, st, site) ==
    IF /\ isUndetermined(m, site)
       /\ ~site.Exported
       /\ site \notin st.toExport
       /\ site \notin st.reachesExported
    THEN rangeImplicants(m, [st EXCEPT !.toExport = @ \cup {site}],
                         DOMAIN m[site].Implicants)
    ELSE {st}

\* Lines 215-227.
markReachesExported(m, st, site) ==
    IF /\ isUndetermined(m, site)
       /\ ~site.Exported
       /\ site \notin st.toExport
       /\ site \notin st.reachesExported
       /\ ~st.overflow
    THEN IF st.depth >= MaxStackDepth
         THEN {stackOverflow(st)}
         ELSE LET st1 == IF site \in st.reachableFromExported
                         THEN [st EXCEPT !.toExport = @ \cup {site}]
                         ELSE [st EXCEPT !.reachesExported = @ \cup {site}]
              IN  {leave(st2) : st2 \in rangeImplicants(m, enterBackward(st1, site),
                                                        DOMAIN m[site].Implicants)}
    ELSE {st}

\* for implicant := range val.Implicants { markReachesExported(implicant) }
rangeImplicants(m, st, todo) ==
    IF todo = {}
    THEN {st}
    ELSE UNION {UNION {rangeImplicants(m, st2, todo \ {n}) :
                         st2 \in markReachesExported(m, st, n)} : n \in todo}

\* Lines 230-245: the body of the outer loop for one site of the mapping.
visitSite(m, st, site) ==
    IF ~site.Exported
    THEN {st}
    ELSE LET st1 == [st EXCEPT !.toExport = @ \cup {site}]
         IN  IF isUndetermined(m, site)
             THEN UNION {rangeImplicates(m, st2, DOMAIN m[site].Implicates) :
                           st2 \in rangeImplicants(m, st1, DOMAIN m[site].Implicants)}
             ELSE {st1}

RECURSIVE rangeMapping(_, _, _)
\* for site := range i.mapping { ... }, in every order.
rangeMapping(m, st, todo) ==
    IF todo = {}
    THEN {st}
    ELSE UNION {UNION {rangeMapping(m, st2, todo \ {s}) :
                         st2 \in visitSite(m, st, s)} : s \in todo}

\* The runs chooseSitesToExport can make on mapping m.  The loop of line 229
\* passes over a private site at once (lines 230-232), so the runs differ
\* only in the order of the exported sites.
selectorRuns(m) == rangeMapping(m, NewMarks, {site \in DOMAIN m : site.Exported})

\* The sets chooseSitesToExport can return on mapping m.
chooseSitesToExport(m) == {st.toExport : st \in selectorRuns(m)}

\* ------------------------------------------------------------------ export
\* A nil InferredVal.
NilVal == [tag |-> "nil"]

\* The edges of `new` that `old` does not hold: a neighbour is kept with the
\* assertions it gained.
edgeDiff(new, old) ==
    LET gained(n) == new[n] \ (IF n \in DOMAIN old THEN old[n] ELSE {})
    IN  [n \in {x \in DOMAIN new : gained(x) # {}} |-> gained(n)]

\* inferredValDiff(newVal, oldVal): what newVal adds to oldVal, and whether
\* that is anything. A determination of a site that was undetermined is the
\* delta; an undetermined value's delta is its new edges.
inferredValDiff(newVal, oldVal) ==
    IF newVal.tag = "Determined"
    THEN IF oldVal.tag = "Undetermined"
         THEN [diff |-> newVal, diffNonempty |-> TRUE]
         ELSE [diff |-> NilVal, diffNonempty |-> FALSE]
    ELSE IF oldVal.tag = "Undetermined"
         THEN LET d == UndeterminedVal(edgeDiff(newVal.Implicates, oldVal.Implicates),
                                       edgeDiff(newVal.Implicants, oldVal.Implicants))
              IN  [diff |-> d,
                   diffNonempty |-> DOMAIN d.Implicates # {} \/ DOMAIN d.Implicants # {}]
         ELSE [diff |-> newVal, diffNonempty |-> TRUE]

\* Mutant: the upstream snapshot is not consulted.
exportsSite_IgnoreUpstream(m, up, sitesToExport, site) == site \in sitesToExport

\* Whether the loop of lines 141-155 stores an entry for site.
exportsSite(m, up, sitesToExport, site) ==
    /\ site \in sitesToExport
    /\ site \in DOMAIN up =>
          LET d == inferredValDiff(m[site], up[site])
          IN  d.diffNonempty /\ d.diff # NilVal

\* Mutant: every selected site is exported with its full live value.
exportedMap_FullValues(m, up, sitesToExport) ==
    [site \in {s \in DOMAIN m : s \in sitesToExport} |-> m[site]]

\* Mutant: line 150 stores the live value where it should store the diff.
exportedMap_LiveValue(m, up, sitesToExport) ==
    [site \in {s \in DOMAIN m : exportsSite(m, up, sitesToExport, s)} |-> m[site]]

\* Lines 139-155: the map `exported`.
exportedMap(m, up, sitesToExport) ==
    [site \in {s \in DOMAIN m : exportsSite(m, up, sitesToExport, s)} |->
        IF site \in DOMAIN up
        THEN inferredValDiff(m[site], up[site]).diff
        ELSE m[site]]

\* Mutant: the fact is emitted without the test of len(exported).
emittedFacts_Unconditional(exported) ==
    <<[mapping |-> exported, upstreamMapping |-> EmptyMap]>>

\* Lines 157-161: the package facts one call hands to pass.ExportPackageFact.
emittedFacts(exported) ==
    IF Cardinality(DOMAIN exported) > 0
    THEN <<[mapping |-> exported, upstreamMapping |-> EmptyMap]>>
    ELSE <<>>

\* Mutant: line 159 assigns the exported entries to the receiver's own
\* mapping as well.
Export_IntoReceiver ==
    /\ ~panicked
    /\ IF Cardinality(DOMAIN mapping) = 0
       THEN /\ last' = [op |-> "Export", sitesToExport |-> {}, facts |-> <<>>]
            /\ mapping' = mapping
       ELSE \E sitesToExport \in chooseSitesToExport(mapping) :
               LET exported == exportedMap(mapping, upstreamMapping, sitesToExport)
               IN  /\ last' = [op |-> "Export", sitesToExport |-> sitesToExport,
                               facts |-> emittedFacts(exported)]
                   /\ mapping' = IF Cardinality(DOMAIN exported) > 0
                                 THEN exported ELSE mapping
    /\ UNCHANGED <<upstreamMapping, wire, panicked, nops, conf>>

Export ==
    /\ ~panicked
    /\ IF Cardinality(DOMAIN mapping) = 0
       THEN last' = [op |-> "Export", sitesToExport |-> {}, facts |-> <<>>]
       ELSE \E sitesToExport \in chooseSitesToExport(mapping) :
               last' = [op |-> "Export", sitesToExport |-> sitesToExport,
                        facts |-> emittedFacts(
                            exportedMap(mapping, upstreamMapping, sitesToExport))]
    /\ UNCHANGED <<mapping, upstreamMapping, wire, panicked, nops, conf>>

\* ----------------------------------------------------------------- queries
\* annotation.EmptyVal
EmptyVal ==
    [IsNilable |-> FALSE, IsDeepNilable |-> FALSE,
     IsNilableSet |-> FALSE, IsDeepNilableSet |-> FALSE]

\* Mutant: the deep key is built with deep = false.
checkAnnotationKey_ShallowTwice(m, key) ==
    LET shallowKey == newPrimitiveSite(key, FALSE)
    IN  IF shallowKey \notin DOMAIN m \/ m[shallowKey].tag # "Determined"
        THEN [val |-> EmptyVal, ok |-> FALSE]
        ELSE [val |-> [IsNilable |-> m[shallowKey].Bool,
                       IsDeepNilable |-> m[shallowKey].Bool,
                       IsNilableSet |-> TRUE,
                       IsDeepNilableSet |-> TRUE],
              ok |-> TRUE]

\* Lines 283-305.
checkAnnotationKey(m, key) ==
    LET shallowKey == newPrimitiveSite(key, FALSE)
        deepKey == newPrimitiveSite(key, TRUE)
    IN  IF shallowKey \notin DOMAIN m \/ deepKey \notin DOMAIN m
        THEN [val |-> EmptyVal, ok |-> FALSE]
        ELSE IF m[shallowKey].tag # "Determined" \/ m[deepKey].tag # "Determined"
             THEN [val |-> EmptyVal, ok |-> FALSE]
             ELSE [val |-> [IsNilable |-> m[shallowKey].Bool,
                            IsDeepNilable |-> m[deepKey].Bool,
                            IsNilableSet |-> TRUE,
                            IsDeepNilableSet |-> TRUE],
                   ok |-> TRUE]

\* The six Check*Ann methods (lines 254-281) build the key and delegate.
CheckAnn(key) ==
    /\ ~panicked
    /\ LET r == checkAnnotationKey(mapping, key)
       IN  last' = [op |-> "CheckAnn", key |-> key, val |-> r.val, ok |-> r.ok]
    /\ UNCHANGED <<mapping, upstreamMapping, wire, panicked, nops, conf>>

\* ----------------------------------------------------------- introspection
\* Lines 85-88: the value stored for site, and whether there is one.
LoadValue(m, site) ==
    IF site \in DOMAIN m
    THEN [value |-> m[site], ok |-> TRUE]
    ELSE [value |-> NilVal, ok |-> FALSE]

Load(site) ==
    /\ ~panicked
    /\ LET r == LoadValue(mapping, site)
       IN  last' = [op |-> "Load", site |-> site, value |-> r.value, ok |-> r.ok]
    /\ UNCHANGED <<mapping, upstreamMapping, wire, panicked, nops, conf>>

\* Lines 114-116.
LenValue(m) == Cardinality(DOMAIN m)

MapLen ==
    /\ ~panicked
    /\ last' = [op |-> "Len", len |-> LenValue(mapping)]
    /\ UNCHANGED <<mapping, upstreamMapping, wire, panicked, nops, conf>>

\* Lines 120-126: the entries Range can hand to a visitor f that answers
\* `continue` until it has seen `limit` entries: any limit of them, or all
\* of them when there are fewer.
RangeVisits(m, limit) ==
    {[s \in D |-> m[s]] :
        D \in {X \in SUBSET DOMAIN m :
                 Cardinality(X) = IF limit < LenValue(m) THEN limit ELSE LenValue(m)}}

\* The visitor stops at its first entry (stopAtFirst) or never.
Range(stopAtFirst) ==
    /\ ~panicked
    /\ \E visited \in RangeVisits(mapping, IF stopAtFirst THEN 1 ELSE LenValue(mapping)) :
          last' = [op |-> "Range", stopAtFirst |-> stopAtFirst, visited |-> visited]
    /\ UNCHANGED <<mapping, upstreamMapping, wire, panicked, nops, conf>>

\* --------------------------------------------------------------- transport
\* The gob stream of an edge set: one (neighbour, assertion) item per
\* assertion.
encodeSites(sites) ==
    UNION {{<<n, a>> : a \in sites[n]} : n \in DOMAIN sites} \cup
    {<<n>> : n \in {x \in DOMAIN sites : sites[x] = {}}}

decodeSites(items) ==
    [n \in {it[1] : it \in items} |->
        {it[2] : it \in {x \in items : Len(x) = 2 /\ x[1] = n}}]

encodeVal(val) ==
    IF val.tag = "Determined"
    THEN <<"D", val.Bool, {}, {}>>
    ELSE <<"U", FALSE, encodeSites(val.Implicates), encodeSites(val.Implicants)>>

decodeVal(enc) ==
    IF enc[1] = "D"
    THEN DeterminedVal(enc[2])
    ELSE UndeterminedVal(decodeSites(enc[3]), decodeSites(enc[4]))

\* enc.Encode(i.mapping): one (site, value) entry per key; the order of the
\* entries carries no information.
GobEncodeBytes(m) == {<<site, encodeVal(m[site])>> : site \in DOMAIN m}

\* dec.Decode(&i.mapping) into a fresh map.
GobDecodeBytes(input) ==
    [site \in {e[1] : e \in input} |->
        decodeVal((CHOOSE e \in input : e[1] = site)[2])]

\* GobEncode of the live map, or of the fact object Export has just emitted.
GobEncode ==
    /\ ~panicked
    /\ \E m \in {mapping} \cup
               (IF last.op = "Export" THEN {f.mapping : f \in
                   {last.facts[k] : k \in 1..Len(last.facts)}} ELSE {}) :
          /\ wire' = [present |-> TRUE, bytes |-> GobEncodeBytes(m)]
          /\ last' = [op |-> "GobEncode", M |-> m]
    /\ UNCHANGED <<mapping, upstreamMapping, panicked, nops, conf>>

\* Mutant: line 181 is missing: the payload is decoded into the maps the
\* receiver already holds.
GobDecode_IntoLiveMaps ==
    /\ ~panicked
    /\ wire.present
    /\ mapping' = [s \in DOMAIN mapping \cup DOMAIN GobDecodeBytes(wire.bytes) |->
                      IF s \in DOMAIN GobDecodeBytes(wire.bytes)
                      THEN GobDecodeBytes(wire.bytes)[s]
                      ELSE mapping[s]]
    /\ wire' = NoWire
    /\ last' = [op |-> "GobDecode", afterEncode |-> last.op = "GobEncode",
                hadUpstream |-> upstreamMapping # EmptyMap]
    /\ UNCHANGED <<upstreamMapping, panicked, nops, conf>>

GobDecode ==
    /\ ~panicked
    /\ wire.present
    /\ mapping' = GobDecodeBytes(wire.bytes)
    /\ upstreamMapping' = EmptyMap
    /\ wire' = NoWire
    /\ last' = [op |-> "GobDecode", afterEncode |-> last.op = "GobEncode",
                hadUpstream |-> upstreamMapping # EmptyMap]
    /\ UNCHANGED <<panicked, nops, conf>>

\* The receiving driver replays the decoded entries into the upstream
\* snapshot as well, so that both maps start from the upstream payload.
ObserveUpstream ==
    /\ ~panicked
    /\ last.op = "GobDecode"
    /\ upstreamMapping' = mapping
    /\ last' = [op |-> "ObserveUpstream"]
    /\ UNCHANGED <<mapping, wire, panicked, nops, conf>>

\* ------------------------------------------------------------ scope query
\* *types.Package: nil, or a package with a path.
NilPkg == [nil |-> TRUE, Path |-> <<>>]
Pkg(path) == [nil |-> FALSE, Path |-> path]
Packages == {NilPkg} \cup {Pkg(path) : path \in Strings(PathChars, MaxPathLen)}

\* Mutant: the exclude loop of lines 53-57 is missing.
IsPkgInScopeValue_IncludeWins(c, pkg) ==
    /\ ~pkg.nil
    /\ \E i \in 1..Len(c.includePkgs) : HasPrefix(pkg.Path, c.includePkgs[i])

\* Lines 48-60 of config.go, from the i-th include entry on.
RECURSIVE rangeIncludePkgs(_, _, _)
rangeIncludePkgs(c, pkg, i) ==
    IF i > Len(c.includePkgs)
    THEN FALSE
    ELSE IF ~HasPrefix(pkg.Path, c.includePkgs[i])
         THEN rangeIncludePkgs(c, pkg, i + 1)
         ELSE IF \E j \in 1..Len(c.excludePkgs) :
                    HasPrefix(pkg.Path, c.excludePkgs[j])
              THEN FALSE
              ELSE TRUE

\* Lines 43-64 of config.go.
IsPkgInScopeValue(c, pkg) ==
    IF pkg.nil THEN FALSE ELSE rangeIncludePkgs(c, pkg, 1)

IsPkgInScope(pkg) ==
    /\ last' = [op |-> "IsPkgInScope", pkg |-> pkg,
                inScope |-> IsPkgInScopeValue(conf, pkg)]
    /\ UNCHANGED <<mapping, upstreamMapping, wire, panicked, nops, conf>>

\* ---------------------------------------------------------- specifications
Next ==
    \/ \E site \in Sites, value \in BOOLEAN : StoreDetermined(site, value)
    \/ \E from \in Sites, to \in Sites, assertion \in Triggers :
           StoreImplication(from, to, assertion)

    \/ Export
    \/ \E key \in Keys : CheckAnn(key)

\* One analysis pass on a map created empty.
Spec == Init /\ [][Next]_vars

\* The stores of one pass and its export.
NextStore ==
    \/ \E site \in Sites, value \in BOOLEAN : StoreDetermined(site, value)
    \/ \E from \in Sites, to \in Sites, assertion \in Triggers :
           StoreImplication(from, to, assertion)
    \/ Export

SpecStore == Init /\ [][NextStore]_vars

\* The calls of a pass stop once its map is on the wire; the receiver's
\* decode takes the payload off the wire and starts the next pass.
NextUp ==
    \/ /\ ~wire.present /\ nops < MaxUpOps
       /\ \E site \in Sites, value \in BOOLEAN : StoreDetermined(site, value)
    \/ /\ ~wire.present /\ nops < MaxUpOps
       /\ \E from \in Sites, to \in Sites, assertion \in Triggers :
              StoreImplication(from, to, assertion)
    \/ ~wire.present /\ Export
    \/ GobEncode
    \/ GobDecode
    \/ ObserveUpstream

\* Passes chained by the fact transport: a map is encoded, decoded by the
\* receiver and seeded as its upstream snapshot.
SpecUp == Init /\ [][NextUp]_vars

\* A downstream pass with the introspection calls of the constraint
\* generator.  The pass starts where the chained passes leave the receiver
\* after GobDecode and ObserveUpstream: both maps hold the fact of an
\* upstream package, here one whose analysis made a single store.
UpstreamPassMaps ==
    {StoreDeterminedMap(EmptyMap, site, value) : site \in Sites, value \in BOOLEAN}
    \cup {StoreImplicationMap(EmptyMap, from, to, assertion).map :
            from \in Sites, to \in Sites, assertion \in Triggers}

ImportedFacts ==
    {GobDecodeBytes(GobEncodeBytes(facts[1].mapping)) :
        facts \in {f \in UNION {{emittedFacts(exportedMap(m, EmptyMap, sitesToExport)) :
                                   sitesToExport \in chooseSitesToExport(m)} :
                                m \in UpstreamPassMaps} :
                     f # <<>>}}

InitRead ==
    /\ mapping \in ImportedFacts
    /\ upstreamMapping = mapping
    /\ wire = NoWire
    /\ panicked = FALSE
    /\ nops = 0
    /\ last = [op |-> "ObserveUpstream"]
    /\ conf = DefaultConfig

NextRead ==
    \/ /\ nops < MaxReadOps
       /\ \E site \in Sites, value \in BOOLEAN : StoreDetermined(site, value)
    \/ /\ nops < MaxReadOps
       /\ \E from \in Sites, to \in Sites, assertion \in Triggers :
              StoreImplication(from, to, assertion)
    \/ Export
    \/ \E site \in Sites : Load(site)
    \/ MapLen
    \/ \E stopAtFirst \in BOOLEAN : Range(stopAtFirst)

SpecRead == InitRead /\ [][NextRead]_vars

\* The scope queries of the passes, on the Config that the config analyzer
\* built from its flags.
InitConfig ==
    /\ mapping = EmptyMap
    /\ upstreamMapping = EmptyMap
    /\ wire = NoWire
    /\ panicked = FALSE
    /\ nops = 0
    /\ last = [op |-> "run"]
    /\ conf \in {runConfig(include, exclude) :
                    include \in Strings(FlagChars, MaxFlagLen),
                    exclude \in Strings(FlagChars, MaxFlagLen)}

NextConfig == \E pkg \in Packages : IsPkgInScope(pkg)

SpecConfig == InitConfig /\ [][NextConfig]_vars

\* ------------------------------------------------------------------ claims
E1 == newPrimitiveSite("E", FALSE)
E2 == newPrimitiveSite("E", TRUE)
P1 == newPrimitiveSite("P", FALSE)
P2 == newPrimitiveSite("P", TRUE)

UndeterminedSites(m) == {s \in DOMAIN m : m[s].tag = "Undetermined"}

\* The undetermined sites one Implicates edge away from a site of S.
Implicated(m, S) ==
    {v \in UndeterminedSites(m) :
        \E u \in S \cap UndeterminedSites(m) : v \in DOMAIN m[u].Implicates}

RECURSIVE Grow(_, _, _)
Grow(m, R, k) == IF k = 0 THEN R ELSE Grow(m, R \cup Implicated(m, R), k - 1)

\* The sites a directed path of one or more Implicates edges leads to from
\* site a, every node of the path an undetermined entry of m.
PathsFrom(m, a) == Grow(m, Implicated(m, {a}), Cardinality(DOMAIN m))

ExportedUndetermined(m) == {s \in UndeterminedSites(m) : s.Exported}

\* p is an intermediate site of a path between two exported undetermined sites.
OnExportedPath(m, p) ==
    \E a \in ExportedUndetermined(m), b \in ExportedUndetermined(m) :
        p \in PathsFrom(m, a) /\ b \in PathsFrom(m, p)

\* C1: export convexity. Every intermediate site of a directed path of
\* undetermined sites between two exported undetermined sites is in the set
\* chooseSitesToExport returns.
C1_ExportConvexity ==
    last.op = "Export" =>
        \A p \in UndeterminedSites(mapping) :
            OnExportedPath(mapping, p) => p \in last.sitesToExport

\* The chain E1 => P1 => P2 => E2 has been exported as exactly its four sites.
C1_Witness ==
    /\ last.op = "Export"
    /\ UndeterminedSites(mapping) = Sites
    /\ DOMAIN mapping[E1].Implicates = {P1}
    /\ DOMAIN mapping[P1].Implicates = {P2}
    /\ DOMAIN mapping[P2].Implicates = {E2}
    /\ last.sitesToExport = {E1, P1, P2, E2}

\* C2: export minimality. Every private site selected is an undetermined
\* site on a path between two exported undetermined sites; a private site
\* that such a path does not cross, and a private determined site, is never
\* selected.
C2_ExportMinimality ==
    last.op = "Export" =>
        \A p \in last.sitesToExport :
            ~p.Exported => isUndetermined(mapping, p) /\ OnExportedPath(mapping, p)

\* An export that selected one private site and left out another, which an
\* exported site reaches but which reaches none.
C2_Witness ==
    /\ last.op = "Export"
    /\ P1 \in last.sitesToExport
    /\ isUndetermined(mapping, P2)
    /\ P2 \in PathsFrom(mapping, E1)
    /\ P2 \notin last.sitesToExport

\* The two sides of the edge u => v agree in map m.
EdgeSymmetric(m, u, v) ==
    LET out == isUndetermined(m, u) /\ v \in DOMAIN m[u].Implicates
        in == isUndetermined(m, v) /\ u \in DOMAIN m[v].Implicants
    IN  /\ out <=> in
        /\ out /\ in => m[u].Implicates[v] = m[v].Implicants[u]

\* C3: edge symmetry. v is a key of M[u].Implicates iff u is a key of
\* M[v].Implicants, with equal trigger sets, in every mapping a sequence of
\* completed StoreDetermined and StoreImplication calls produces.
C3_EdgeSymmetry ==
    ~panicked => \A u \in Sites, v \in Sites : EdgeSymmetric(mapping, u, v)

\* C4: StoreImplication on an endpoint that is already Determined does not
\* panic and leaves no half-inserted edge.
C4_DeterminedEndpointTolerated ==
    (last.op = "StoreImplication" /\ (last.fromDetermined \/ last.toDetermined)) =>
        /\ ~panicked
        /\ EdgeSymmetric(mapping, last.from, last.to)

\* C5: diff correctness. With the same entries in mapping and
\* upstreamMapping, Export emits no fact.
C5_DiffCorrectness ==
    (last.op = "Export" /\ mapping = upstreamMapping) => last.facts = <<>>

\* An export of a replayed payload that selects an exported undetermined
\* site, a private site and emits nothing.
C5_Witness ==
    /\ last.op = "Export"
    /\ mapping = upstreamMapping
    /\ \E s \in last.sitesToExport : s.Exported /\ isUndetermined(mapping, s)
    /\ \E s \in last.sitesToExport : ~s.Exported
    /\ last.facts = <<>>

\* The facts of the last Export call, as a set.
LastFacts == {last.facts[k] : k \in 1..Len(last.facts)}

C7_QuerySoundComplete ==
    last.op = "CheckAnn" =>
        LET shallow == newPrimitiveSite(last.key, FALSE)
            deep == newPrimitiveSite(last.key, TRUE)
        IN  /\ last.ok <=> (isDetermined(mapping, shallow) /\ isDetermined(mapping, deep))
            /\ last.ok => last.val = [IsNilable |-> mapping[shallow].Bool,
                                      IsDeepNilable |-> mapping[deep].Bool,
                                      IsNilableSet |-> TRUE,
                                      IsDeepNilableSet |-> TRUE]
            /\ ~last.ok => last.val = EmptyVal

\* Scenario S1: a successful query whose two verdicts differ.
C7_Witness ==
    /\ last.op = "CheckAnn"
    /\ last.ok
    /\ last.val.IsNilable
    /\ ~last.val.IsDeepNilable

\* C8: encode/decode round trip. GobDecode of the bytes GobEncode produced
\* for a map M leaves a mapping equal to M.mapping and an empty
\* upstreamMapping, whatever the upstream snapshot was.
C8_RoundTrip ==
    [][(last.op = "GobEncode" /\ last'.op = "GobDecode") =>
          /\ mapping' = last.M
          /\ upstreamMapping' = EmptyMap]_vars

\* A decode, right after the encode, of a map with an edge and a
\* determination, on a map that had an upstream snapshot.
C8_Witness ==
    /\ last.op = "GobDecode"
    /\ last.afterEncode
    /\ last.hadUpstream
    /\ \E s \in DOMAIN mapping : isDetermined(mapping, s)
    /\ \E s \in DOMAIN mapping :
          isUndetermined(mapping, s) /\ DOMAIN mapping[s].Implicates # {}

\* C9: idempotence of StoreImplication. A second call with the same triple
\* leaves the mapping of the first; the edge is recorded on both sides with
\* the trigger, and from the empty map it is the only entry of each side.
C9_StoreImplicationIdempotent ==
    [][(last'.op = "StoreImplication" /\ last'.again /\ ~panicked') =>
          LET u == last'.from
              v == last'.to
              t == last'.assertion
          IN  /\ mapping' = mapping
              /\ v \in DOMAIN mapping'[u].Implicates
              /\ t \in mapping'[u].Implicates[v]
              /\ u \in DOMAIN mapping'[v].Implicants
              /\ t \in mapping'[v].Implicants[u]
              /\ nops' = 2 =>
                    /\ mapping'[u].Implicates = (v :> {t})
                    /\ mapping'[v].Implicants = (u :> {t})]_vars

\* The same triple stored twice, for a self-loop on a site that already
\* carried another edge.
C9_Witness ==
    /\ last.op = "StoreImplication"
    /\ last.again
    /\ ~panicked
    /\ nops = 3
    /\ last.from = last.to
    /\ \E s \in DOMAIN mapping :
          isUndetermined(mapping, s) /\ Cardinality(DOMAIN mapping[s].Implicates) = 2

\* C10: Export emits at most one fact per call, and none when there is
\* nothing to publish: an empty mapping, or no site with the Exported bit.
C10_AtMostOneFact ==
    last.op = "Export" =>
        /\ Len(last.facts) <= 1
        /\ \A f \in LastFacts : DOMAIN f.mapping # {}
        /\ (\A s \in DOMAIN mapping : ~s.Exported) => last.facts = <<>>

\* Scenario S2: an export of a pure private chain, which emits nothing.
C10_Witness ==
    /\ last.op = "Export"
    /\ DOMAIN mapping = {P1, P2}
    /\ UndeterminedSites(mapping) = {P1, P2}
    /\ DOMAIN mapping[P1].Implicates = {P2}
    /\ DOMAIN mapping[P2].Implicates = {P1}
    /\ last.facts = <<>>

\* C11: the upstream snapshot is never mutated.  No call of StoreDetermined,
\* StoreImplication, Load, Len, Range or Export (chooseSitesToExport
\* included) changes the key set of upstreamMapping or the value stored at
\* any of its keys, and every fact Export emits has an empty upstreamMapping.
C11_UpstreamNeverMutated ==
    [][/\ last'.op \in {"StoreDetermined", "StoreImplication", "Load", "Len",
                        "Range", "Export"}
          => /\ DOMAIN upstreamMapping' = DOMAIN upstreamMapping
             /\ \A s \in DOMAIN upstreamMapping :
                   upstreamMapping'[s] = upstreamMapping[s]
       /\ last'.op = "Export"
          => \A k \in 1..Len(last'.facts) :
                last'.facts[k].upstreamMapping = EmptyMap]_vars

\* A downstream pass added an edge at a site the upstream snapshot holds:
\* the live value of that site now differs from the snapshot's.
C11_Witness ==
    /\ last.op = "StoreImplication"
    /\ ~panicked
    /\ last.from \in DOMAIN upstreamMapping
    /\ isUndetermined(upstreamMapping, last.from)
    /\ mapping[last.from] # upstreamMapping[last.from]


\* C12: IsPkgInScope(pkg) returns true iff pkg is non-nil, at least one
\* entry of includePkgs is a prefix of pkg's path and no entry of
\* excludePkgs is, whatever the order and the number of matching include
\* entries; with the default include list [""] every package no exclude
\* entry matches is in scope.
C12_PkgInScope ==
    last.op = "IsPkgInScope"
    => /\ last.inScope
          <=> /\ ~last.pkg.nil
              /\ \E i \in 1..Len(conf.includePkgs) :
                    HasPrefix(last.pkg.Path, conf.includePkgs[i])
              /\ \A j \in 1..Len(conf.excludePkgs) :
                    ~HasPrefix(last.pkg.Path, conf.excludePkgs[j])
       /\ conf.includePkgs = << <<>> >> /\ ~last.pkg.nil
          => (last.inScope
                <=> \A j \in 1..Len(conf.excludePkgs) :
                       ~HasPrefix(last.pkg.Path, conf.excludePkgs[j]))

\* A package two include entries match, the first entry not among them, is
\* out of scope because an exclude entry matches it too.
C12_Witness ==
    /\ last.op = "IsPkgInScope"
    /\ ~last.pkg.nil
    /\ ~last.inScope
    /\ Len(conf.includePkgs) >= 3
    /\ ~HasPrefix(last.pkg.Path, conf.includePkgs[1])
    /\ Cardinality({i \in 1..Len(conf.includePkgs) :
                      HasPrefix(last.pkg.Path, conf.includePkgs[i])}) >= 2
    /\ \E j \in 1..Len(conf.excludePkgs) :
          HasPrefix(last.pkg.Path, conf.excludePkgs[j])

\* The sites the edge sets of the undetermined entries of m name.
EdgeTargets(m) ==
    UNION {DOMAIN m[s].Implicates \cup DOMAIN m[s].Implicants :
             s \in UndeterminedSites(m)}

\* C13: closure of the live map.  In every mapping that StoreDetermined and
\* StoreImplication calls produce from an empty map, every site that is a
\* key of the Implicates or Implicants of an undetermined entry is itself a
\* key of mapping.
C13_LiveMapClosed == EdgeTargets(mapping) \subseteq DOMAIN mapping

\* One StoreImplication on an empty map created both endpoints.
C13_Witness ==
    /\ last.op = "StoreImplication"
    /\ nops = 1
    /\ last.from # last.to
    /\ DOMAIN mapping = {last.from, last.to}
    /\ last.to \in DOMAIN mapping[last.from].Implicates

\* C14: determined sites have no edges.  No undetermined entry lists in its
\* Implicates or Implicants a site whose current value is determined.
C14_DeterminedSitesHaveNoEdges ==
    ~panicked => \A s \in EdgeTargets(mapping) : ~isDetermined(mapping, s)

\* The selected sites that the emission rule lets through: those the
\* upstream snapshot lacks and those whose diff against it is non-empty.
EmittedSites ==
    {s \in last.sitesToExport :
        \/ s \notin DOMAIN upstreamMapping
        \/ inferredValDiff(mapping[s], upstreamMapping[s]).diffNonempty}

\* C15: Export's emission rule.  The fact holds exactly the selected sites
\* that are absent from upstreamMapping, with their live value in full, and
\* the selected sites present in both maps whose inferredValDiff is
\* non-empty, with that diff; a site that is not selected, or is selected
\* but unchanged, is not in it (and without such a site there is no fact).
C15_EmissionRule ==
    last.op = "Export" =>
        IF EmittedSites = {}
        THEN last.facts = <<>>
        ELSE /\ Len(last.facts) = 1
             /\ DOMAIN last.facts[1].mapping = EmittedSites
             /\ \A s \in EmittedSites :
                   last.facts[1].mapping[s] =
                      IF s \in DOMAIN upstreamMapping
                      THEN inferredValDiff(mapping[s], upstreamMapping[s]).diff
                      ELSE mapping[s]

\* A fact with a site new to this pass, in full, and a site of the upstream
\* snapshot that gained an edge, as the diff.
C15_Witness ==
    /\ last.op = "Export"
    /\ Len(last.facts) = 1
    /\ \E s \in DOMAIN last.facts[1].mapping :
          s \notin DOMAIN upstreamMapping /\ last.facts[1].mapping[s] = mapping[s]
    /\ \E s \in DOMAIN last.facts[1].mapping :
          s \in DOMAIN upstreamMapping /\ last.facts[1].mapping[s] # mapping[s]

\* C16: the export selector terminates on every finite mapping, cycles,
\* self-loops and edges to sites that StoreDetermined overwrote included:
\* within one call of chooseSitesToExport each of markReachableFromExported
\* and markReachesExported goes into the neighbours of a given site at most
\* once, and the recursion never exhausts the stack.
C16_SelectorTerminates ==
    last.op = "Export" =>
        \A st \in selectorRuns(mapping) :
            /\ ~st.overflow
            /\ st.depth = 0
            /\ \A s \in Sites : st.forward[s] <= 1 /\ st.backward[s] <= 1

\* An export of a map where the private sites lie on a cycle that the
\* forward walk enters: it went into the neighbours of both, once each.
C16_Witness ==
    /\ last.op = "Export"
    /\ {P1, P2} \subseteq UndeterminedSites(mapping)
    /\ P2 \in DOMAIN mapping[P1].Implicates
    /\ P1 \in DOMAIN mapping[P2].Implicates
    /\ \E st \in selectorRuns(mapping) : st.forward[P1] = 1 /\ st.forward[P2] = 1

\* C17: StoreDetermined(site, b) is last-writer-wins.  After the call
\* mapping[site] is Determined(b) whatever entry the site had (none,
\* determined with either bool, undetermined with edges), every other key of
\* mapping has the value it had, and Load(site) returns Determined(b): after
\* any sequence of StoreDetermined calls on a site, the bool of the last.
C17_LastWriterWins ==
    [][last'.op = "StoreDetermined"
       => /\ mapping'[last'.site] = DeterminedVal(last'.value)
          /\ DOMAIN mapping' = DOMAIN mapping \cup {last'.site}
          /\ \A s \in DOMAIN mapping \ {last'.site} : mapping'[s] = mapping[s]
          /\ LoadValue(mapping', last'.site) =
                [value |-> DeterminedVal(last'.value), ok |-> TRUE]]_vars

\* The third store determined a site that had an undetermined entry with
\* edges: a neighbour still names it.
C17_Witness ==
    /\ last.op = "StoreDetermined"
    /\ nops = 3
    /\ isDetermined(mapping, last.site)
    /\ mapping[last.site].Bool = last.value
    /\ \E s \in UndeterminedSites(mapping) :
          /\ last.site \in DOMAIN mapping[s].Implicates
          /\ last.site \in DOMAIN mapping[s].Implicants

\* Private undetermined site p is reachable from an exported undetermined
\* site and reaches none, or reaches one and is reachable from none.
OneSided(m, p) ==
    /\ ~p.Exported
    /\ isUndetermined(m, p)
    /\ (\E a \in ExportedUndetermined(m) : p \in PathsFrom(m, a))
          # (\E b \in ExportedUndetermined(m) : b \in PathsFrom(m, p))

\* C18: one-sided reachability (scenario S4).  A private undetermined site
\* that an exported site reaches but that reaches no exported site, or the
\* other way round, is never selected and is no entry of the emitted fact;
\* the exported sites are entries, and their edge sets name it.  With the
\* single edge E1 => P1 the selection is {E1}, and the fact holds E1 with P1
\* in its Implicates and no entry for P1.
C18_OneSidedReachability ==
    last.op = "Export" =>
        \A p \in DOMAIN mapping :
            OneSided(mapping, p) =>
                /\ p \notin last.sitesToExport
                /\ Len(last.facts) = 1
                /\ p \notin DOMAIN last.facts[1].mapping
                /\ \A e \in ExportedUndetermined(mapping) :
                      /\ e \in DOMAIN last.facts[1].mapping
                      /\ upstreamMapping = EmptyMap
                            => last.facts[1].mapping[e] = mapping[e]

\* Scenario S4: the map holds the single edge E1 => P1.
C18_Witness ==
    /\ last.op = "Export"
    /\ DOMAIN mapping = {E1, P1}
    /\ UndeterminedSites(mapping) = {E1, P1}
    /\ DOMAIN mapping[E1].Implicates = {P1}
    /\ DOMAIN mapping[E1].Implicants = {}
    /\ DOMAIN mapping[P1].Implicates = {}
    /\ last.sitesToExport = {E1}
    /\ DOMAIN last.facts[1].mapping = {E1}
    /\ P1 \in DOMAIN last.facts[1].mapping[E1].Implicates

\* The facts Export can emit on the current maps, one for each set the
\* selector can return.
PossibleFacts ==
    {emittedFacts(exportedMap(mapping, upstreamMapping, sitesToExport)) :
        sitesToExport \in chooseSitesToExport(mapping)}

\* C19: the selector is deterministic.  For a given mapping
\* chooseSitesToExport returns the same set whatever the order in which the
\* range statements iterate over the mapping and over the edge sets, so two
\* runs of Export on equal maps emit equal facts.
C19_SelectorDeterministic ==
    last.op = "Export" =>
        /\ chooseSitesToExport(mapping) = {last.sitesToExport}
        /\ PossibleFacts = {last.facts}

\* An export on a map where the iteration order shows in the marking sets
\* the selector ends with, and which selected a private site.
C19_Witness ==
    /\ last.op = "Export"
    /\ Cardinality(selectorRuns(mapping)) > 1
    /\ \E p \in last.sitesToExport : ~p.Exported

\* C20: Export is read-only on the live map.  Export, chooseSitesToExport
\* included, leaves mapping as it was, so Len, Load and the Check*Ann
\* queries answer after it as they did before it, and an Export that follows
\* an Export emits what the first emitted.
C20_ExportReadOnly ==
    [][last'.op = "Export"
       => /\ mapping' = mapping
          /\ LenValue(mapping') = LenValue(mapping)
          /\ \A s \in Sites : LoadValue(mapping', s) = LoadValue(mapping, s)
          /\ \A k \in Keys :
                checkAnnotationKey(mapping', k) = checkAnnotationKey(mapping, k)
          /\ last.op = "Export" => last'.facts = last.facts]_vars

\* An export of a downstream pass emitted a fact that lacks entries of the
\* live map and holds a diff where the live map holds the full value.
C20_Witness ==
    /\ last.op = "Export"
    /\ Len(last.facts) = 1
    /\ DOMAIN last.facts[1].mapping # DOMAIN mapping
    /\ \E s \in DOMAIN last.facts[1].mapping : last.facts[1].mapping[s] # mapping[s]

====
